---------------------------- MODULE Spec2Model ----------------------------
(***************************************************************************)
(* Model of the two attribute macros of aws_macros:                        *)
(*   tag.rs   `tag`  : conversion impls for one value type                 *)
(*   tags.rs  `tags` : from_values / from_tags / into_tags for a struct    *)
(* An expansion is one step from (attribute tokens, decorated item) to     *)
(* either a panic (nothing emitted) or the emitted item and impls.  The    *)
(* emitted impls are then run: their match arms and field initializers     *)
(* are evaluated as Rust evaluates them.                                   *)
(***************************************************************************)
EXTENDS Naturals, Sequences, FiniteSets, TLC

VARIABLES
    attr,   \* the macro's attribute tokens, as parsed by syn::parse
    item,   \* the decorated item
    out,    \* the expansion: pending, panic (nothing emitted) or ok
    val,    \* the struct value last built by generated code (Self)
    tags,   \* the tag list last returned by into_tags or handed to from_tags
    call    \* the last call of generated code: its operation, argument, result;
            \* of from_tags also the initializers that ran and, when the list came
            \* from into_tags, the value it was made from

vars == <<attr, item, out, val, tags, call>>

----------------------------------------------------------------------------
(* Bounds of the model *)

MaxVariants == 2
MaxFields == 2
MaxTags == 2

----------------------------------------------------------------------------
(* Syntax trees, as far as the macros read them *)

None == [some |-> FALSE]
Some(x) == [some |-> TRUE, val |-> x]

Ok(v) == [ok |-> TRUE, val |-> v]
Err(e) == [ok |-> FALSE, err |-> e]

Id(s) == [sym |-> s, raw |-> FALSE]
RawId(s) == [sym |-> s, raw |-> TRUE]

\* Ident::to_string: a raw identifier keeps its r# prefix
IdentToString(i) == IF i.raw THEN "r#" \o i.sym ELSE i.sym

\* Ident == &str
IdentEq(i, s) == IdentToString(i) = s

EPath(segs) == [kind |-> "Path", segs |-> segs]
ELitStr(s) == [kind |-> "Lit", lit |-> [kind |-> "Str", value |-> s]]
ELitInt(n) == [kind |-> "Lit", lit |-> [kind |-> "Int", value |-> n]]
EAssign(l, r) == [kind |-> "Assign", left |-> l, right |-> r]
\* tokens that are no expression: syn::parse fails on them
Unparsable == [kind |-> "Unparsable"]

NoArgs == [kind |-> "None"]
Angle(args) == [kind |-> "AngleBracketed", args |-> args]
Paren == [kind |-> "Parenthesized"]
Seg(name, args) == [ident |-> Id(name), arguments |-> args]
TPath(segs) == [kind |-> "Path", segs |-> segs]
TRef(t) == [kind |-> "Reference", elem |-> t]
TTuple == [kind |-> "Tuple"]
GType(t) == [kind |-> "Type", ty |-> t]
GLifetime == [kind |-> "Lifetime"]
Plain(name) == TPath(<<Seg(name, NoArgs)>>)

MetaList(path, tokens) == [kind |-> "List", path |-> path, tokens |-> tokens]
MetaPath(path) == [kind |-> "Path", path |-> path]
MetaNameValue(path) == [kind |-> "NameValue", path |-> path]
Outer(meta) == [style |-> "Outer", meta |-> meta]
Inner(meta) == [style |-> "Inner", meta |-> meta]

FUnit == [style |-> "Unit"]
FNamed(list) == [style |-> "Named", list |-> list]
FUnnamed(list) == [style |-> "Unnamed", list |-> list]
Field(ident, ty, attrs) == [ident |-> ident, ty |-> ty, attrs |-> attrs]

Variant(ident, fields, disc, attrs) ==
    [ident |-> ident, fields |-> fields, discriminant |-> disc, attrs |-> attrs]

ItemStruct(ident, fields) == [kind |-> "Struct", ident |-> ident, fields |-> fields]
ItemEnum(ident, variants) == [kind |-> "Enum", ident |-> ident, variants |-> variants]
ItemOther(kind) == [kind |-> kind]

Pending == [st |-> "pending"]
Panic(msg) == [st |-> "panic", msg |-> msg]

\* s without its i-th element: Vec::remove
Remove(s, i) == [j \in 1..(Len(s) - 1) |-> IF j < i THEN s[j] ELSE s[j + 1]]

SeqsUpTo(S, n) == UNION {[1..k -> S] : k \in 0..n}

RECURSIVE ListsOfLen(_, _)
\* the lists of length k whose i-th element is drawn from choices[i]
ListsOfLen(choices, k) ==
    IF k = 0 THEN {<<>>}
    ELSE {Append(l, x) : l \in ListsOfLen(choices, k - 1), x \in choices[k]}

----------------------------------------------------------------------------
(* tag.rs *)

\* the predicate of find_map in parse_enum_attributes
IsTagAttribute(a) ==
    /\ a.style = "Outer"
    /\ a.meta.kind = "List"
    /\ Len(a.meta.path) = 1
    /\ IdentEq(a.meta.path[1], "tag")

\* the payload of a variant's tag(...) attribute
ParseRenameExpr(expr) ==
    IF expr.kind = "Unparsable" THEN Panic("expected expr in macro attribute")
    ELSE IF expr.kind # "Assign" THEN Panic("invalid expression in enum variant attribute")
    ELSE IF expr.left.kind # "Path"
        THEN Panic("invalid expression in enum variant attribute, left side")
    ELSE IF Len(expr.left.segs) # 1 THEN Panic("invalid attribute key")
    ELSE IF ~IdentEq(expr.left.segs[1], "rename") THEN Panic("invalid attribute key")
    ELSE IF expr.right.kind # "Lit"
        THEN Panic("invalid expression in enum variant attribute, right side")
    ELSE IF expr.right.lit.kind # "Str"
        THEN Panic("invalid literal in enum variant attribute")
    ELSE [st |-> "ok", rename |-> Some(expr.right.lit)]

NotTagAttribute(a) == ~IsTagAttribute(a)

\* parse_enum_attributes removing every tag(...) attribute of the variant
parse_enum_attributes_all(attrs) ==
    LET hits == {i \in 1..Len(attrs) : IsTagAttribute(attrs[i])}
    IN  IF hits = {} THEN [st |-> "ok", rename |-> None, attrs |-> attrs]
        ELSE LET i == CHOOSE k \in hits : \A m \in hits : k <= m
                 r == ParseRenameExpr(attrs[i].meta.tokens)
             IN  IF r.st = "ok"
                 THEN [st |-> "ok", rename |-> r.rename,
                       attrs |-> SelectSeq(attrs, NotTagAttribute)]
                 ELSE r

\* [st, rename, attrs]: the rename literal and the attribute list left behind
parse_enum_attributes(attrs) ==
    LET hits == {i \in 1..Len(attrs) : IsTagAttribute(attrs[i])}
    IN  IF hits = {} THEN [st |-> "ok", rename |-> None, attrs |-> attrs]
        ELSE LET i == CHOOSE k \in hits : \A m \in hits : k <= m
                 r == ParseRenameExpr(attrs[i].meta.tokens)
             IN  IF r.st = "ok"
                 THEN [st |-> "ok", rename |-> r.rename, attrs |-> Remove(attrs, i)]
                 ELSE r

\* the closure of parse_transparent_enum on one variant
ParseVariant(variant) ==
    IF variant.discriminant THEN Panic("variant cannot have an explicit discriminant")
    ELSE IF variant.fields.style # "Unit" THEN Panic("enum cannot have fields in variants")
    ELSE LET r == parse_enum_attributes(variant.attrs)
         IN  IF r.st # "ok" THEN r
             ELSE [st |-> "ok",
                   pair |-> [ident |-> variant.ident, rename |-> r.rename],
                   variant |-> [variant EXCEPT !.attrs = r.attrs]]

RECURSIVE ParseVariants(_, _, _, _)
\* the map over e.variants, in order, stopping at the first panic
ParseVariants(vs, i, pairs, done) ==
    IF i > Len(vs) THEN [st |-> "ok", pairs |-> pairs, variants |-> done]
    ELSE LET r == ParseVariant(vs[i])
         IN  IF r.st # "ok" THEN r
             ELSE ParseVariants(vs, i + 1, Append(pairs, r.pair), Append(done, r.variant))

parse_transparent_enum(e) ==
    LET r == ParseVariants(e.variants, 1, <<>>, <<>>)
    IN  IF r.st # "ok" THEN r
        ELSE [st |-> "ok",
              translator |-> [kind |-> "Transparent",
                              sub |-> [kind |-> "SimpleEnum", variants |-> r.pairs]],
              elem |-> [e EXCEPT !.variants = r.variants]]

\* ParseTransparent taking the first unnamed field of any tuple struct
ParseTransparentFirstField(elem) ==
    IF elem.kind = "Struct" THEN
        IF elem.fields.style = "Unnamed" /\ Len(elem.fields.list) >= 1
        THEN [st |-> "ok",
              translator |-> [kind |-> "Transparent",
                              sub |-> [kind |-> "NewtypeStruct",
                                       ty |-> elem.fields.list[1].ty]],
              elem |-> elem]
        ELSE Panic("transparent translation is only available for newtype-style macros")
    ELSE IF elem.kind = "Enum" THEN parse_transparent_enum(elem)
    ELSE Panic("transparent translation is only available for newtype-style macros")

\* the match on the decorated item under translate = transparent
ParseTransparent(elem) ==
    IF elem.kind = "Struct" THEN
        IF elem.fields.style = "Unnamed" /\ Len(elem.fields.list) = 1
        THEN [st |-> "ok",
              translator |-> [kind |-> "Transparent",
                              sub |-> [kind |-> "NewtypeStruct",
                                       ty |-> elem.fields.list[1].ty]],
              elem |-> elem]
        ELSE Panic("transparent translation is only available for newtype-style macros")
    ELSE IF elem.kind = "Enum" THEN parse_transparent_enum(elem)
    ELSE Panic("transparent translation is only available for newtype-style macros")

\* SelectTranslator with an unknown translator falling back to serde
SelectTranslatorDefault(t, elem) ==
    CASE t = "manual" -> [st |-> "ok", translator |-> [kind |-> "Manual"], elem |-> elem]
      [] t = "transparent" -> ParseTransparent(elem)
      [] OTHER -> [st |-> "ok", translator |-> [kind |-> "Serde"], elem |-> elem]

\* the match on the identifier right of `translate =`
SelectTranslator(t, elem) ==
    CASE t = "serde" -> [st |-> "ok", translator |-> [kind |-> "Serde"], elem |-> elem]
      [] t = "manual" -> [st |-> "ok", translator |-> [kind |-> "Manual"], elem |-> elem]
      [] t = "transparent" -> ParseTransparent(elem)
      [] OTHER -> Panic("invalid translator " \o t)

\* the arms built from one (variant, rename) pair
VariantLit(pair) ==
    IF pair.rename.some THEN pair.rename.val.value ELSE IdentToString(pair.ident)

\* EmitTranslator with the serde arm pasted from the manual arm
EmitTranslatorPasted(translator) ==
    CASE translator.kind \in {"Serde", "Manual"} ->
            [marker |-> "TranslatableManual", strategy |-> "TranslateManual",
             conv |-> [kind |-> "None"]]
      [] translator.kind = "Transparent" /\ translator.sub.kind = "NewtypeStruct" ->
            [marker |-> "TranslatableManual", strategy |-> "TranslateManual",
             conv |-> [kind |-> "Newtype", ty |-> translator.sub.ty]]
      [] OTHER ->
            [marker |-> "TranslatableManual", strategy |-> "TranslateManual",
             conv |-> [kind |-> "Enum",
                       into_raw_tag_mapping |->
                           [i \in 1..Len(translator.sub.variants) |->
                               [variant |-> translator.sub.variants[i].ident,
                                lit |-> VariantLit(translator.sub.variants[i])]],
                       from_raw_tag_mapping |->
                           [i \in 1..Len(translator.sub.variants) |->
                               [lit |-> VariantLit(translator.sub.variants[i]),
                                variant |-> translator.sub.variants[i].ident]]]]

\* the quote! of the chosen translator
EmitTranslator(translator) ==
    CASE translator.kind = "Serde" ->
            [marker |-> "TranslatableSerde", strategy |-> "TranslateSerde",
             conv |-> [kind |-> "None"]]
      [] translator.kind = "Manual" ->
            [marker |-> "TranslatableManual", strategy |-> "TranslateManual",
             conv |-> [kind |-> "None"]]
      [] translator.kind = "Transparent" /\ translator.sub.kind = "NewtypeStruct" ->
            [marker |-> "TranslatableManual", strategy |-> "TranslateManual",
             conv |-> [kind |-> "Newtype", ty |-> translator.sub.ty]]
      [] OTHER ->
            [marker |-> "TranslatableManual", strategy |-> "TranslateManual",
             conv |-> [kind |-> "Enum",
                       into_raw_tag_mapping |->
                           [i \in 1..Len(translator.sub.variants) |->
                               [variant |-> translator.sub.variants[i].ident,
                                lit |-> VariantLit(translator.sub.variants[i])]],
                       from_raw_tag_mapping |->
                           [i \in 1..Len(translator.sub.variants) |->
                               [lit |-> VariantLit(translator.sub.variants[i]),
                                variant |-> translator.sub.variants[i].ident]]]]

\* tag::transform: Panic(msg), or [st |-> "ok", elem, impls]
tag_transform(a, elem) ==
    IF a.kind = "Unparsable" THEN Panic("expected expr in macro attribute")
    ELSE IF a.kind # "Assign" THEN Panic("invalid expression in macro attribute")
    ELSE IF a.left.kind # "Path" THEN Panic("invalid expression in tag field attribute, left side")
    ELSE IF Len(a.left.segs) # 1 THEN Panic("invalid attribute key")
    ELSE IF ~IdentEq(a.left.segs[1], "translate") THEN Panic("invalid attribute key")
    ELSE IF a.right.kind # "Path" THEN Panic("invalid expression in tag field attribute, left side")
    ELSE IF Len(a.right.segs) # 1 THEN Panic("invalid attribute key")
    ELSE LET r == SelectTranslator(IdentToString(a.right.segs[1]), elem)
         IN  IF r.st # "ok" THEN r
             ELSE IF r.elem.kind \notin {"Struct", "Enum"}
                 THEN Panic("only applicable to structs/enums")
             ELSE [st |-> "ok", elem |-> r.elem, name |-> r.elem.ident,
                   impls |-> EmitTranslator(r.translator)]

\* RawTagValue::new and RawTagValue::as_str
RawNew(s) == [raw |-> s]
AsStr(v) == v.raw

RECURSIVE MatchInto(_, _, _)
\* the generated `match value { Name::V => RawTagValue::new(lit), .. }`
MatchInto(arms, i, v) ==
    IF i > Len(arms) THEN [nomatch |-> TRUE]
    ELSE IF arms[i].variant = v THEN RawNew(arms[i].lit)
    ELSE MatchInto(arms, i + 1, v)

RECURSIVE MatchFrom(_, _, _)
\* the generated `match value.as_str() { lit => Self::V, .., _ => Err(InvalidValue) }`
MatchFrom(arms, i, value) ==
    IF i > Len(arms)
    THEN Err([kind |-> "InvalidValue", value |-> value, message |-> "invalid enum value"])
    ELSE IF arms[i].lit = AsStr(value) THEN Ok(arms[i].variant)
    ELSE MatchFrom(arms, i + 1, value)

\* impl From<Name> for RawTagValue
EnumIntoRaw(impls, v) == MatchInto(impls.conv.into_raw_tag_mapping, 1, v)
\* impl TryFrom<RawTagValue> for Name
EnumTryFrom(impls, value) == MatchFrom(impls.conv.from_raw_tag_mapping, 1, value)

----------------------------------------------------------------------------
(* Inputs of the `tag` macro *)

Translate == EPath(<<Id("translate")>>)

ConfigLefts ==
    {Translate, EPath(<<Id("rename")>>), EPath(<<Id("tag"), Id("translate")>>),
     ELitStr("translate")}

ConfigRights ==
    {EPath(<<Id("serde")>>), EPath(<<Id("manual")>>), EPath(<<Id("transparent")>>),
     EPath(<<Id("bogus")>>), EPath(<<Id("tag"), Id("serde")>>), ELitStr("serde")}

Configs ==
    {EAssign(l, r) : l \in ConfigLefts, r \in ConfigRights}
        \cup {EPath(<<Id("serde")>>), ELitStr("serde"), Unparsable}

TagAttr(key, lit) == Outer(MetaList(<<Id("tag")>>, EAssign(EPath(<<Id(key)>>), lit)))
DocAttr == Outer(MetaNameValue(<<Id("doc")>>))

VariantAttrLists ==
    {<<>>,
     <<TagAttr("rename", ELitStr("bee"))>>,
     <<TagAttr("rename", ELitStr("A"))>>,
     <<DocAttr, TagAttr("rename", ELitStr("bee"))>>,
     <<TagAttr("rename", ELitStr("bee")), TagAttr("rename", ELitStr("B"))>>,
     <<TagAttr("key", ELitStr("bee"))>>,
     <<TagAttr("rename", ELitInt(1))>>,
     <<Outer(MetaPath(<<Id("tag")>>))>>}

VariantNames == <<"A", "B", "C", "D">>

\* what a variant is besides its name: unit with some attributes, or with a
\* payload, or with a discriminant
VariantShapes ==
    {[fields |-> FUnit, discriminant |-> FALSE, attrs |-> as] : as \in VariantAttrLists}
        \cup {[fields |-> FUnnamed(<<Field(None, Plain("String"), <<>>)>>),
               discriminant |-> FALSE, attrs |-> <<>>],
              [fields |-> FNamed(<<Field(Some(Id("x")), Plain("String"), <<>>)>>),
               discriminant |-> FALSE, attrs |-> <<>>],
              [fields |-> FUnit, discriminant |-> TRUE, attrs |-> <<>>]}

\* the enum whose i-th variant is named VariantNames[i]: Rust's variant names are
\* distinct
EnumOf(shapes) ==
    ItemEnum(Id("Name"),
             [i \in 1..Len(shapes) |->
                 Variant(Id(VariantNames[i]), shapes[i].fields, shapes[i].discriminant,
                         shapes[i].attrs)])

StructShapes ==
    {FUnit, FNamed(<<>>),
     FNamed(<<Field(Some(Id("x")), Plain("String"), <<>>)>>),
     FUnnamed(<<>>),
     FUnnamed(<<Field(None, Plain("String"), <<>>)>>),
     FUnnamed(<<Field(None, Plain("u32"), <<>>)>>),
     FUnnamed(<<Field(None, Plain("String"), <<>>), Field(None, Plain("u32"), <<>>)>>)}

\* the decorated items that are no enum
TagItems ==
    {ItemStruct(Id("Name"), f) : f \in StructShapes} \cup {ItemOther("Fn"), ItemOther("Union")}

RawStrings == {"A", "B", "bee", "xyz"}

NoCall == [op |-> "none"]

----------------------------------------------------------------------------
(* The `tag` macro and the impls it emits *)

InitTag ==
    /\ attr \in Configs
    /\ \/ item \in TagItems
       \/ \E n \in 0..MaxVariants : \E shapes \in [1..n -> VariantShapes] :
             item = EnumOf(shapes)
    /\ out = Pending
    /\ val = None
    /\ tags = <<>>
    /\ call = NoCall

\* the compiler expands #[tag(attr)] on item
TagExpand ==
    /\ out.st = "pending"
    /\ out' = tag_transform(attr, item)
    /\ UNCHANGED <<attr, item, val, tags, call>>

HasEnumConv == out.st = "ok" /\ out.impls.conv.kind = "Enum"

\* RawTagValue::from(Name::V)
EnumInto ==
    /\ HasEnumConv
    /\ \E i \in 1..Len(out.elem.variants) :
          call' = [op |-> "into_raw", arg |-> out.elem.variants[i].ident,
                   ret |-> EnumIntoRaw(out.impls, out.elem.variants[i].ident)]
    /\ UNCHANGED <<attr, item, out, val, tags>>

\* Name::try_from(RawTagValue::new(s))
EnumParse ==
    /\ HasEnumConv
    /\ \E s \in RawStrings :
          call' = [op |-> "try_from", arg |-> RawNew(s),
                   ret |-> EnumTryFrom(out.impls, RawNew(s))]
    /\ UNCHANGED <<attr, item, out, val, tags>>

NextTag == TagExpand \/ EnumInto \/ EnumParse

SpecTag == InitTag /\ [][NextTag]_vars

----------------------------------------------------------------------------
(* Properties of the `tag` macro *)

ConfigOf(t) == EAssign(Translate, EPath(<<Id(t)>>))

ValidConfig(a) == a \in {ConfigOf("serde"), ConfigOf("manual"), ConfigOf("transparent")}

\* nothing is emitted by a panicking expansion: no item, no impls
EmitsNothing(o) == o.st = "panic" /\ DOMAIN o = {"st", "msg"}

\* C1: the expansion of `tag` succeeds only for translate = serde | manual |
\* transparent; under every other configuration expression it fails, emits
\* nothing and chooses no translator.
C1_OnlyValidConfigExpands ==
    out.st # "pending" =>
        /\ out.st = "ok" => ValidConfig(attr)
        /\ ~ValidConfig(attr) => EmitsNothing(out)

C1_Witness ==
    /\ attr = ConfigOf("bogus")
    /\ item.kind = "Struct"
    /\ out.st = "panic"
    /\ out.msg = "invalid translator bogus"

SerdeImpls ==
    [marker |-> "TranslatableSerde", strategy |-> "TranslateSerde", conv |-> [kind |-> "None"]]

ManualImpls ==
    [marker |-> "TranslatableManual", strategy |-> "TranslateManual", conv |-> [kind |-> "None"]]

ExpectedImpls == IF attr = ConfigOf("serde") THEN SerdeImpls ELSE ManualImpls

EmitsUnchanged == out.st = "ok" /\ out.elem = item /\ out.impls = ExpectedImpls

\* C2 as stated: under translate = serde | manual every decorated item, whatever
\* its kind, expands to the unchanged item and the marker and TagValue impls.
C2_AnyItemExpands ==
    (out.st # "pending" /\ attr \in {ConfigOf("serde"), ConfigOf("manual")}) =>
        EmitsUnchanged

\* C2 amended: under translate = serde | manual every struct and every enum,
\* whatever its fields or variants, expands to the unchanged item and the marker
\* and TagValue impls of the strategy; an item that is neither a struct nor an
\* enum is rejected and nothing is emitted.
C2_StructOrEnumExpands ==
    (out.st # "pending" /\ attr \in {ConfigOf("serde"), ConfigOf("manual")}) =>
        IF item.kind \in {"Struct", "Enum"} THEN EmitsUnchanged ELSE EmitsNothing(out)

C2_Witness ==
    /\ attr = ConfigOf("serde")
    /\ item.kind = "Enum"
    /\ Len(item.variants) = 2
    /\ item.variants[1].fields.style = "Unnamed"
    /\ item.variants[2].discriminant
    /\ out.st = "ok"
    /\ out.impls.marker = "TranslatableSerde"

IsNewtype(it) ==
    it.kind = "Struct" /\ it.fields.style = "Unnamed" /\ Len(it.fields.list) = 1

IsSimpleEnum(it) ==
    /\ it.kind = "Enum"
    /\ \A i \in 1..Len(it.variants) :
          it.variants[i].fields.style = "Unit" /\ ~it.variants[i].discriminant

\* C3: under translate = transparent an expansion is accepted only for a struct
\* with exactly one unnamed field or an enum of unit variants without
\* discriminant; every other struct, enum or item kind is rejected with no output.
C3_TransparentShapes ==
    (out.st # "pending" /\ attr = ConfigOf("transparent")) =>
        /\ out.st = "ok" => (IsNewtype(item) \/ IsSimpleEnum(item))
        /\ ~(IsNewtype(item) \/ IsSimpleEnum(item)) => EmitsNothing(out)

C3_Witness ==
    /\ attr = ConfigOf("transparent")
    /\ item.kind = "Enum"
    /\ Len(item.variants) = 2
    /\ item.variants[1].fields.style = "Unit"
    /\ ~item.variants[1].discriminant
    /\ item.variants[2].fields.style = "Unnamed"
    /\ out.st = "panic"

\* the string a variant is declared to serialize to: the literal of its
\* tag(rename = "...") attribute, else its identifier text
DeclaredName(v) ==
    LET hits == {i \in 1..Len(v.attrs) :
                    /\ v.attrs[i].meta.kind = "List"
                    /\ v.attrs[i].meta.path = <<Id("tag")>>}
    IN  IF hits = {} THEN IdentToString(v.ident)
        ELSE v.attrs[CHOOSE k \in hits : \A m \in hits : k <= m].meta.tokens.right.lit.value

DeclaredNames == {DeclaredName(item.variants[i]) : i \in 1..Len(item.variants)}

InvalidValue(s) ==
    Err([kind |-> "InvalidValue", value |-> RawNew(s), message |-> "invalid enum value"])

\* C4: for every accepted transparent enum and every variant v, serializing v
\* yields its rename literal or else its identifier text, parsing that string
\* yields v again, and parsing any other string fails with InvalidValue carrying
\* the string.
C4_EnumRoundTrip ==
    HasEnumConv =>
        /\ \A i \in 1..Len(item.variants) :
              LET v == item.variants[i]
              IN  /\ EnumIntoRaw(out.impls, v.ident) = RawNew(DeclaredName(v))
                  /\ EnumTryFrom(out.impls, RawNew(DeclaredName(v))) = Ok(v.ident)
        /\ \A s \in RawStrings \ DeclaredNames :
              EnumTryFrom(out.impls, RawNew(s)) = InvalidValue(s)

----------------------------------------------------------------------------
(* tags.rs *)

is_cfg_attribute(a) ==
    a.meta.kind = "List" /\ a.meta.path = <<Id("cfg")>>

cfg_attrs(v) == SelectSeq(v, is_cfg_attribute)

\* parse_type taking the last generic argument of Option without counting them
parse_type_unchecked(input) ==
    IF input.kind # "Path" THEN Panic("invalid field type")
    ELSE LET first == input.segs[1]
         IN  IF IdentToString(first.ident) = "Option" THEN
                 IF first.arguments.kind # "AngleBracketed" THEN Panic("invalid Option usage")
                 ELSE IF Len(first.arguments.args) = 0
                     THEN Panic("wrong number of Option generic arguments")
                 ELSE LET ty == first.arguments.args[Len(first.arguments.args)]
                      IN  IF ty.kind # "Type" THEN Panic("need simple owned Option generic")
                          ELSE IF ty.ty.kind # "Path"
                              THEN Panic("invalid generic type for Option")
                          ELSE [st |-> "ok", ty |-> ty.ty.segs, kind |-> "Optional"]
             ELSE [st |-> "ok", ty |-> input.segs, kind |-> "Required"]

\* [st, ty, kind]: the element type (a path) and the classification
parse_type(input) ==
    IF input.kind # "Path" THEN Panic("invalid field type")
    ELSE LET first == input.segs[1]
         IN  IF IdentToString(first.ident) = "Option" THEN
                 IF first.arguments.kind # "AngleBracketed" THEN Panic("invalid Option usage")
                 ELSE IF Len(first.arguments.args) # 1
                     THEN Panic("wrong number of Option generic arguments")
                 ELSE LET ty == first.arguments.args[Len(first.arguments.args)]
                      IN  IF ty.kind # "Type" THEN Panic("need simple owned Option generic")
                          ELSE IF ty.ty.kind # "Path"
                              THEN Panic("invalid generic type for Option")
                          ELSE [st |-> "ok", ty |-> ty.ty.segs, kind |-> "Optional"]
             ELSE [st |-> "ok", ty |-> input.segs, kind |-> "Required"]

\* Path::is_ident on an attribute's path
PathIsIdent(path, s) == Len(path) = 1 /\ IdentEq(path[1], s)

\* the predicate of find_map in parse_field_attrs
IsFieldTagAttribute(a) ==
    /\ a.style = "Outer"
    /\ a.meta.kind = "List"
    /\ PathIsIdent(a.meta.path, "tag")

\* the payload of a field's tag(...) attribute
ParseKeyExpr(expr) ==
    IF expr.kind = "Unparsable" THEN Panic("failed parsing tag field attribute")
    ELSE IF expr.kind # "Assign" THEN Panic("invalid expression in tag field attribute")
    ELSE IF expr.left.kind # "Path"
        THEN Panic("invalid expression in tag field attribute, left side")
    ELSE IF ~PathIsIdent(expr.left.segs, "key") THEN Panic("invalid tag field attribute key")
    ELSE IF expr.right.kind # "Lit"
        THEN Panic("right side of tag field attribute not a literal")
    ELSE IF expr.right.lit.kind # "Str"
        THEN Panic("right side of tag field not a string literal")
    ELSE [st |-> "ok", name |-> Some(expr.right.lit.value)]

\* [st, name, attrs]: the key literal and the attribute list left behind
parse_field_attrs(attrs) ==
    LET hits == {i \in 1..Len(attrs) : IsFieldTagAttribute(attrs[i])}
    IN  IF hits = {} THEN [st |-> "ok", name |-> None, attrs |-> attrs]
        ELSE LET i == CHOOSE k \in hits : \A m \in hits : k <= m
                 r == ParseKeyExpr(attrs[i].meta.tokens)
             IN  IF r.st = "ok"
                 THEN [st |-> "ok", name |-> r.name, attrs |-> Remove(attrs, i)]
                 ELSE r

\* the body of the loop of parse_fields on one field
ParseField(field) ==
    IF ~field.ident.some THEN Panic("tuple structs not supported")
    ELSE LET t == parse_type(field.ty)
         IN  IF t.st # "ok" THEN t
             ELSE LET n == parse_field_attrs(field.attrs)
                  IN  IF n.st # "ok" THEN n
                      ELSE [st |-> "ok",
                            element |->
                                [ident |-> field.ident.val,
                                 ty |-> t.ty,
                                 kind |-> t.kind,
                                 name |-> IF n.name.some THEN n.name.val
                                          ELSE IdentToString(field.ident.val),
                                 attrs |-> n.attrs]]

RECURSIVE ParseFieldsFrom(_, _, _)
ParseFieldsFrom(input, i, elements) ==
    IF i > Len(input) THEN [st |-> "ok", elements |-> elements]
    ELSE LET r == ParseField(input[i])
         IN  IF r.st # "ok" THEN r
             ELSE ParseFieldsFrom(input, i + 1, Append(elements, r.element))

parse_fields(input) == ParseFieldsFrom(input, 1, <<>>)

\* [st, ident, elements]
parse_struct(input) ==
    IF input.fields.style # "Named" THEN Panic("invalid fields")
    ELSE LET r == parse_fields(input.fields.list)
         IN  IF r.st # "ok" THEN r
             ELSE [st |-> "ok", ident |-> input.ident, elements |-> r.elements]

\* the path ::std::option::Option<ty> the emitter writes for an optional element
StdOption(ty) ==
    <<Seg("std", NoArgs), Seg("option", NoArgs), Seg("Option", Angle(<<GType(TPath(ty))>>))>>

DeclaredType(e) == IF e.kind = "Optional" THEN StdOption(e.ty) ELSE e.ty

\* the emitted struct and the field lists of the three generated functions
build_output(input) ==
    [st |-> "ok",
     elem |->
        [kind |-> "Struct", ident |-> input.ident,
         fields |-> FNamed([i \in 1..Len(input.elements) |->
                        Field(Some(input.elements[i].ident),
                              TPath(DeclaredType(input.elements[i])),
                              input.elements[i].attrs)])],
     impls |->
        [params |->
            [i \in 1..Len(input.elements) |->
                [attrs |-> cfg_attrs(input.elements[i].attrs),
                 ident |-> input.elements[i].ident,
                 ty |-> DeclaredType(input.elements[i])]],
         from_fields |->
            [i \in 1..Len(input.elements) |->
                [attrs |-> cfg_attrs(input.elements[i].attrs),
                 ident |-> input.elements[i].ident]],
         from_tags_fields |->
            [i \in 1..Len(input.elements) |->
                [attrs |-> cfg_attrs(input.elements[i].attrs),
                 ident |-> input.elements[i].ident,
                 ty |-> input.elements[i].ty,
                 tag_name |-> input.elements[i].name,
                 kind |-> input.elements[i].kind]],
         fields_to_tags |->
            [i \in 1..Len(input.elements) |->
                [attrs |-> input.elements[i].attrs,
                 ident |-> input.elements[i].ident,
                 ty |-> input.elements[i].ty,
                 tag_name |-> input.elements[i].name,
                 kind |-> input.elements[i].kind]]]]

EmptyAttr == [kind |-> "Empty"]

\* tags::transform: Panic(msg), or [st |-> "ok", elem, impls]
tags_transform(a, input) ==
    IF a.kind # "Empty" THEN Panic("cannot take any attribute macro attributes")
    ELSE IF input.kind # "Struct" THEN Panic("only applicable to structs")
    ELSE LET r == parse_struct(input)
         IN  IF r.st # "ok" THEN r ELSE build_output(r)

----------------------------------------------------------------------------
(* What the generated code calls in aws_lib::tags *)

TagKeyNew(s) == [key |-> s]
\* TagKey == &str
KeyEq(k, s) == k.key = s
RawTagNew(key, value) == [key |-> key, value |-> value]
TagListFromVec(v) == [entries |-> v]
AsSlice(t) == t.entries

\* the type a path names
TypeName(ty) == IdentToString(ty[Len(ty)].ident)

ValueTypes == {"Num", "Sat"}

\* a value of a field type
V(n) == [n |-> n]

\* the values of a field type
Values(name) == {V(1), V(2)}

\* <T as TagValue<T>>::into_raw_tag
IntoRawTag(ty, v) == RawNew(ToString(v.n))

\* <T as TagValue<T>>::from_raw_tag: Num parses "1" and "2"; Sat parses them too
\* and saturates at 1
FromRawTag(ty, value) ==
    CASE AsStr(value) = "1" -> Ok(V(1))
      [] AsStr(value) = "2" -> Ok(IF TypeName(ty) = "Sat" THEN V(1) ELSE V(2))
      [] OTHER -> Err([kind |-> "InvalidValue", value |-> value,
                       message |-> "invalid value"])

----------------------------------------------------------------------------
(* The functions `tags` generates *)

\* Self { ident: ident, .. } of from_values
from_values(impls, args) ==
    [i \in 1..Len(impls.from_fields) |->
        [ident |-> impls.from_fields[i].ident, value |-> args[i]]]

\* self.ident
FieldOf(self, ident) == self[CHOOSE i \in 1..Len(self) : self[i].ident = ident].value

RECURSIVE FindLastFrom(_, _, _)
\* a lookup returning the last entry of the key
FindLastFrom(slice, i, name) ==
    IF i > Len(slice) THEN None
    ELSE LET rest == FindLastFrom(slice, i + 1, name)
         IN  IF rest.some THEN rest
             ELSE IF KeyEq(slice[i].key, name) THEN Some(slice[i].value) ELSE None

RECURSIVE FindFrom(_, _, _)
\* tags.as_slice().iter().find(|tag| tag.key() == name).map(|tag| tag.value()).cloned()
FindFrom(slice, i, name) ==
    IF i > Len(slice) THEN None
    ELSE IF KeyEq(slice[i].key, name) THEN Some(slice[i].value)
    ELSE FindFrom(slice, i + 1, name)

\* a lookup returning the last entry of the key
FindLast(list, name) == FindLastFrom(AsSlice(list), 1, name)

\* a lookup by position: only the entry at the head of the list is compared
FindAtHead(list, name) ==
    IF Len(AsSlice(list)) > 0 /\ KeyEq(AsSlice(list)[1].key, name)
    THEN Some(AsSlice(list)[1].value) ELSE None

\* the lookup of one field's key in the tag list
Find(list, name) == FindFrom(AsSlice(list), 1, name)

\* try_convert: the field type's conversion, its error wrapped with the key
TryConvert(ty, key, value) ==
    LET r == FromRawTag(ty, value)
    IN  IF r.ok THEN Ok(r.val)
        ELSE Err([kind |-> "ParseTag",
                  inner |-> [kind |-> "InvalidTagValue", key |-> key, inner |-> r.err]])

\* the block initializing one field in from_tags: Ok(value), or the Err returned
FromTagsField(f, list) ==
    LET key == TagKeyNew(f.tag_name)
        value == Find(list, f.tag_name)
    IN  IF f.kind = "Required" THEN
            IF ~value.some THEN Err([kind |-> "TagNotFound", key |-> key])
            ELSE TryConvert(f.ty, key, value.val)
        ELSE
            IF ~value.some THEN Ok(None)
            ELSE LET c == TryConvert(f.ty, key, value.val)
                 IN  IF c.ok THEN Ok(Some(c.val)) ELSE c

RECURSIVE FromTagsCollect(_, _, _, _, _)
\* a from_tags evaluating every field and reporting the first error afterwards
FromTagsCollect(fields, i, list, built, evaluated) ==
    IF i > Len(fields)
    THEN LET bad == {k \in 1..Len(evaluated) : ~evaluated[k].result.ok}
         IN  [ret |-> IF bad = {} THEN Ok(built)
                      ELSE evaluated[CHOOSE k \in bad : \A m \in bad : k <= m].result,
              evaluated |-> evaluated]
    ELSE LET r == FromTagsField(fields[i], list)
             ev == Append(evaluated, [ident |-> fields[i].ident, result |-> r])
         IN  FromTagsCollect(fields, i + 1, list,
                 IF r.ok THEN Append(built, [ident |-> fields[i].ident, value |-> r.val])
                 ELSE built, ev)

RECURSIVE FromTagsFrom(_, _, _, _, _)
\* Ok(Self { .. }): the field initializers run in the order written, and the
\* first Err returns from the function.  [ret, evaluated]: the result and the
\* initializers that ran, each with its outcome
FromTagsFrom(fields, i, list, built, evaluated) ==
    IF i > Len(fields) THEN [ret |-> Ok(built), evaluated |-> evaluated]
    ELSE LET r == FromTagsField(fields[i], list)
             ev == Append(evaluated, [ident |-> fields[i].ident, result |-> r])
         IN  IF ~r.ok THEN [ret |-> r, evaluated |-> ev]
             ELSE FromTagsFrom(fields, i + 1, list,
                      Append(built, [ident |-> fields[i].ident, value |-> r.val]), ev)

from_tags_collect(impls, list) ==
    FromTagsCollect(impls.from_tags_fields, 1, list, <<>>, <<>>)

from_tags(impls, list) == FromTagsFrom(impls.from_tags_fields, 1, list, <<>>, <<>>)

\* the statement of one field in into_tags: v after it
IntoTagsField(f, self, v) ==
    IF f.kind = "Required"
    THEN Append(v, RawTagNew(TagKeyNew(f.tag_name), IntoRawTag(f.ty, FieldOf(self, f.ident))))
    ELSE IF FieldOf(self, f.ident).some
         THEN Append(v, RawTagNew(TagKeyNew(f.tag_name),
                                  IntoRawTag(f.ty, FieldOf(self, f.ident).val)))
         ELSE v

RECURSIVE IntoTagsReversed(_, _, _, _)
\* an into_tags pushing each entry to the front
IntoTagsReversed(fields, i, self, v) ==
    IF i > Len(fields) THEN v
    ELSE LET one == IntoTagsField(fields[i], self, <<>>)
         IN  IntoTagsReversed(fields, i + 1, self, one \o v)

RECURSIVE IntoTagsFrom(_, _, _, _)
IntoTagsFrom(fields, i, self, v) ==
    IF i > Len(fields) THEN v
    ELSE IntoTagsFrom(fields, i + 1, self, IntoTagsField(fields[i], self, v))

into_tags_reversed(impls, self) ==
    TagListFromVec(IntoTagsReversed(impls.fields_to_tags, 1, self, <<>>))

into_tags(impls, self) == TagListFromVec(IntoTagsFrom(impls.fields_to_tags, 1, self, <<>>))

----------------------------------------------------------------------------
(* Inputs of the `tags` macro *)

FieldNames == <<"id", "note", "extra", "more">>

OptionOf(args) == TPath(<<Seg("Option", args)>>)

\* the field types the validator is tried on
ParseTypes ==
    {Plain("Num"),
     TPath(<<Seg("types", NoArgs), Seg("Num", NoArgs)>>),
     OptionOf(Angle(<<GType(Plain("Num"))>>)),
     TPath(<<Seg("std", NoArgs), Seg("option", NoArgs),
             Seg("Option", Angle(<<GType(Plain("Num"))>>))>>),
     TPath(<<Seg("Vec", Angle(<<GType(Plain("Num"))>>))>>),
     TPath(<<Seg("HashMap", Angle(<<GType(Plain("Num")), GType(Plain("Num"))>>))>>),
     OptionOf(NoArgs),
     OptionOf(Angle(<<>>)),
     OptionOf(Angle(<<GType(Plain("Num")), GType(Plain("Num"))>>)),
     OptionOf(Angle(<<GLifetime>>)),
     OptionOf(Angle(<<GType(TRef(Plain("Num")))>>)),
     OptionOf(Paren),
     TRef(Plain("Num")),
     TTuple}

ParseAttrLists ==
    {<<>>, <<TagAttr("key", ELitStr("k"))>>, <<TagAttr("rename", ELitStr("k"))>>}

\* the struct whose i-th field is named FieldNames[i]: Rust's field names are
\* distinct
StructOf(tys, ats) ==
    ItemStruct(Id("Name"),
               FNamed([i \in 1..Len(tys) |-> Field(Some(Id(FieldNames[i])), tys[i], ats[i])]))

\* the decorated items that are no struct with named fields
ParseItems ==
    {ItemStruct(Id("Name"), FUnnamed(<<Field(None, Plain("Num"), <<>>)>>)),
     ItemStruct(Id("Name"), FUnit),
     ItemEnum(Id("Name"), <<>>),
     ItemOther("Fn")}

\* the field types of the structs whose generated functions are run
RunTypes ==
    {Plain(t) : t \in ValueTypes} \cup {OptionOf(Angle(<<GType(Plain(t))>>)) : t \in ValueTypes}

RunAttrLists == {<<>>, <<TagAttr("key", ELitStr("id"))>>}

TagKeys == {"id", "note"}
RawValues == {"1", "2", "x"}

\* the tag lists handed to from_tags from outside
TagLists ==
    {TagListFromVec(v) :
        v \in SeqsUpTo({RawTagNew(TagKeyNew(k), RawNew(r)) : k \in TagKeys, r \in RawValues},
                       MaxTags)}

\* the values a parameter of from_values takes
ParamValues(ty) ==
    IF TypeName(ty) = "Option"
    THEN {None} \cup {Some(v) : v \in Values(TypeName(ty[Len(ty)].arguments.args[1].ty.segs))}
    ELSE Values(TypeName(ty))

ArgLists(params) ==
    ListsOfLen([i \in 1..Len(params) |-> ParamValues(params[i].ty)], Len(params))

----------------------------------------------------------------------------
(* The `tags` macro as a validator *)

InitParse ==
    /\ attr \in {EmptyAttr, ConfigOf("serde")}
    /\ \/ item \in ParseItems
       \/ \E n \in 0..MaxFields :
             \E tys \in [1..n -> ParseTypes] : \E ats \in [1..n -> ParseAttrLists] :
                item = StructOf(tys, ats)
    /\ out = Pending
    /\ val = None
    /\ tags = TagListFromVec(<<>>)
    /\ call = NoCall

\* the compiler expands #[tags] on item
TagsExpand ==
    /\ out.st = "pending"
    /\ out' = tags_transform(attr, item)
    /\ UNCHANGED <<attr, item, val, tags, call>>

NextParse == TagsExpand

SpecParse == InitParse /\ [][NextParse]_vars

----------------------------------------------------------------------------
(* The `tags` macro and the functions it generates.  The generated functions
   keep no state between calls, so a run makes one use of them: from_tags of a
   tag list from outside, or from_values, into_tags and from_tags of its list. *)

InitTags ==
    /\ attr = EmptyAttr
    /\ \E n \in 0..MaxFields :
          \E tys \in [1..n -> RunTypes] : \E ats \in [1..n -> RunAttrLists] :
             item = StructOf(tys, ats)
    /\ out = Pending
    /\ val = None
    /\ tags = TagListFromVec(<<>>)
    /\ call = NoCall

\* Name::from_values(args)
FromValues ==
    /\ out.st = "ok"
    /\ call.op = "none"
    /\ \E as \in ArgLists(out.impls.params) :
          /\ val' = Some(from_values(out.impls, as))
          /\ call' = [op |-> "from_values", arg |-> as, ret |-> from_values(out.impls, as)]
    /\ UNCHANGED <<attr, item, out, tags>>

\* value.into_tags(): the value is moved into the call
IntoTags ==
    /\ out.st = "ok"
    /\ call.op = "from_values"
    /\ val.some
    /\ tags' = into_tags(out.impls, val.val)
    /\ call' = [op |-> "into_tags", arg |-> val.val, ret |-> into_tags(out.impls, val.val)]
    /\ val' = None
    /\ UNCHANGED <<attr, item, out>>

\* Name::from_tags(list), of a list from outside or of the list into_tags returned
FromTags ==
    /\ out.st = "ok"
    /\ call.op \in {"none", "into_tags"}
    /\ \E list \in IF call.op = "none" THEN TagLists ELSE {tags} :
          LET r == from_tags(out.impls, list)
          IN  /\ tags' = list
              /\ call' = [op |-> "from_tags", arg |-> list, ret |-> r.ret,
                          evaluated |-> r.evaluated,
                          source |-> IF call.op = "into_tags" THEN Some(call.arg) ELSE None,
                          before |-> None]
              /\ val' = IF r.ret.ok THEN Some(r.ret.val) ELSE val
    /\ UNCHANGED <<attr, item, out>>

\* the bijections of 1..n
Orders(n) == {p \in [1..n -> 1..n] : \A a, b \in 1..n : a # b => p[a] # p[b]}

\* the tag list with its entries in the order p
Reorder(list, p) == TagListFromVec([i \in 1..Len(AsSlice(list)) |-> AsSlice(list)[p[i]]])

\* Name::from_tags of the list of the last call with its entries reordered;
\* before keeps the list and the result of that call
FromTagsReordered ==
    /\ out.st = "ok"
    /\ call.op = "from_tags"
    /\ ~call.source.some
    /\ ~call.before.some
    /\ \E p \in Orders(Len(AsSlice(call.arg))) :
          LET list == Reorder(call.arg, p)
              r == from_tags(out.impls, list)
          IN  /\ tags' = list
              /\ call' = [op |-> "from_tags", arg |-> list, ret |-> r.ret,
                          evaluated |-> r.evaluated, source |-> None,
                          before |-> Some([arg |-> call.arg, ret |-> call.ret])]
              /\ val' = IF r.ret.ok THEN Some(r.ret.val) ELSE val
    /\ UNCHANGED <<attr, item, out>>

NextTags == TagsExpand \/ FromValues \/ IntoTags \/ FromTags \/ FromTagsReordered

SpecTags == InitTags /\ [][NextTags]_vars

----------------------------------------------------------------------------
(* Properties of the `tags` macro as a validator *)

Fields == item.fields.list

\* the optional wrapper applied to one type argument: Option<T>, also written
\* with its module path
IsOptionWrapper(ty) ==
    /\ ty.kind = "Path"
    /\ LET last == ty.segs[Len(ty.segs)]
       IN  /\ IdentToString(last.ident) = "Option"
           /\ last.arguments.kind = "AngleBracketed"
           /\ Len(last.arguments.args) = 1
           /\ last.arguments.args[1].kind = "Type"
    /\ \/ Len(ty.segs) = 1
       \/ /\ Len(ty.segs) = 3
          /\ IdentToString(ty.segs[1].ident) \in {"std", "core"}
          /\ IdentToString(ty.segs[2].ident) = "option"

WrappedType(ty) == ty.segs[Len(ty.segs)].arguments.args[1].ty

\* C5: over the fields whose declared type is a path type, also a path of
\* several segments, a field is classified Optional iff its declared type is
\* the optional wrapper applied to one type argument, its element type then
\* being the inner type; every other path type is classified Required with
\* the declared type as it is.
C5_OptionalIffOptionWrapper ==
    (out.st = "ok" /\ item.kind = "Struct") =>
        \A i \in 1..Len(Fields) :
            LET ty == Fields[i].ty
                e == out.impls.from_tags_fields[i]
            IN  ty.kind = "Path" =>
                    /\ e.kind = "Optional" <=> IsOptionWrapper(ty)
                    /\ IsOptionWrapper(ty) => TPath(e.ty) = WrappedType(ty)
                    /\ ~IsOptionWrapper(ty) => (e.kind = "Required" /\ e.ty = ty.segs)

IsGeneric(ty) == \E k \in 1..Len(ty.segs) : ty.segs[k].arguments.kind # "None"

NamesOption(ty) == IdentToString(ty.segs[Len(ty.segs)].ident) = "Option"

\* the field types C6 lists: no path type, a generic other than the optional
\* wrapper of one type argument, the optional wrapper with none or several
RejectedType(ty) ==
    \/ ty.kind # "Path"
    \/ (IsGeneric(ty) \/ NamesOption(ty)) /\ ~IsOptionWrapper(ty)

StartsWithOption(ty) == IdentToString(ty.segs[1].ident) = "Option"

\* a path starting with the segment Option that has no angle-bracketed
\* arguments, or none, or several
OptionOfWrongArity(ty) ==
    /\ ty.kind = "Path"
    /\ StartsWithOption(ty)
    /\ \/ ty.segs[1].arguments.kind # "AngleBracketed"
       \/ Len(ty.segs[1].arguments.args) # 1

----------------------------------------------------------------------------
(* Properties of the functions `tags` generates *)

\* the key a field is declared with: the literal of its tag(key = "...")
\* attribute, else its identifier text
DeclaredKey(f) ==
    LET hits == {i \in 1..Len(f.attrs) :
                    /\ f.attrs[i].meta.kind = "List"
                    /\ f.attrs[i].meta.path = <<Id("tag")>>}
    IN  IF hits = {} THEN IdentToString(f.ident.val)
        ELSE f.attrs[CHOOSE k \in hits : \A m \in hits : k <= m].meta.tokens.right.lit.value

DeclaredOptional(f) == IsOptionWrapper(f.ty)

\* the type whose conversion a field uses
ValueType(f) == IF DeclaredOptional(f) THEN WrappedType(f.ty).segs ELSE f.ty.segs

\* the value of the first entry of key k, if any
FirstEntry(list, k) ==
    LET hits == {j \in 1..Len(list.entries) : list.entries[j].key = TagKeyNew(k)}
    IN  IF hits = {} THEN None
        ELSE Some(list.entries[CHOOSE j \in hits : \A m \in hits : j <= m].value)

TagNotFound(k) == Err([kind |-> "TagNotFound", key |-> TagKeyNew(k)])

InvalidTagValue(k, e) ==
    Err([kind |-> "ParseTag",
         inner |-> [kind |-> "InvalidTagValue", key |-> TagKeyNew(k), inner |-> e]])

\* what C7 says a field is filled with
ExpectedFill(f, list) ==
    LET k == DeclaredKey(f)
        e == FirstEntry(list, k)
    IN  IF ~e.some THEN (IF DeclaredOptional(f) THEN Ok(None) ELSE TagNotFound(k))
        ELSE LET c == FromRawTag(ValueType(f), e.val)
             IN  IF ~c.ok THEN InvalidTagValue(k, c.err)
                 ELSE Ok(IF DeclaredOptional(f) THEN Some(c.val) ELSE c.val)

\* C7: from_tags fills each field it reaches from the first entry of the
\* field's key (the tag(key) literal, else the identifier text): without an
\* entry a Required field fails with TagNotFound of the key and an Optional
\* field is absent; with an entry the field type's own conversion is applied
\* and its failure is returned as ParseTag/InvalidTagValue with the key and the
\* inner error, for Required and Optional fields alike.
C7_FieldsFilledByKey ==
    call.op = "from_tags" =>
        \A i \in 1..Len(call.evaluated) :
            LET expected == ExpectedFill(Fields[i], call.arg)
            IN  /\ call.evaluated[i].result = expected
                /\ ~expected.ok => call.ret = expected
                /\ call.ret.ok => call.ret.val[i].value = expected.val

C7_Witness ==
    /\ call.op = "from_tags"
    /\ Len(Fields) = 2
    /\ Fields[1].ty = Plain("Sat")
    /\ Fields[2].ty = OptionOf(Angle(<<GType(Plain("Num"))>>))
    /\ DeclaredKey(Fields[2]) = "id"
    /\ AsSlice(call.arg) = <<RawTagNew(TagKeyNew("id"), RawNew("2")),
                             RawTagNew(TagKeyNew("id"), RawNew("x"))>>
    /\ call.ret = Ok(<<[ident |-> Id("id"), value |-> V(1)],
                       [ident |-> Id("note"), value |-> Some(V(2))]>>)

FailingFields(list) == {i \in 1..Len(Fields) : ~ExpectedFill(Fields[i], list).ok}

\* C8: from_tags runs the field initializers in declaration order and stops at
\* the first failing one: the error is that of the earliest-declared failing
\* field, no later field is looked up or converted, and no struct is returned.
C8_FirstFailingFieldDecides ==
    call.op = "from_tags" =>
        /\ \A i \in 1..Len(call.evaluated) : call.evaluated[i].ident = Fields[i].ident.val
        /\ IF FailingFields(call.arg) = {}
           THEN /\ call.ret.ok
                /\ Len(call.evaluated) = Len(Fields)
                /\ Len(call.ret.val) = Len(Fields)
           ELSE LET first == CHOOSE i \in FailingFields(call.arg) :
                                \A m \in FailingFields(call.arg) : i <= m
                IN  /\ call.ret = ExpectedFill(Fields[first], call.arg)
                    /\ Len(call.evaluated) = first
                    /\ DOMAIN call.ret = {"ok", "err"}

C8_Witness ==
    /\ call.op = "from_tags"
    /\ Len(Fields) = 2
    /\ FailingFields(call.arg) = {1, 2}
    /\ call.ret = TagNotFound("id")
    /\ ExpectedFill(Fields[2], call.arg).err.kind = "ParseTag"
    /\ Len(call.evaluated) = 1

\* the fields into_tags writes an entry for
Present(x) == {i \in 1..Len(Fields) : ~DeclaredOptional(Fields[i]) \/ x[i].value.some}

EntryOf(f, v) ==
    RawTagNew(TagKeyNew(DeclaredKey(f)),
              IntoRawTag(ValueType(f), IF DeclaredOptional(f) THEN v.val ELSE v))

\* C9: into_tags returns a tag list, never an error, holding in declaration
\* order one (key, serialized value) entry for every Required field and every
\* present Optional field and none for an absent Optional field.
C9_IntoTagsEntries ==
    call.op = "into_tags" =>
        /\ DOMAIN call.ret = {"entries"}
        /\ Len(AsSlice(call.ret)) = Cardinality(Present(call.arg))
        /\ \A i \in Present(call.arg) :
              AsSlice(call.ret)[Cardinality({j \in Present(call.arg) : j <= i})]
                  = EntryOf(Fields[i], call.arg[i].value)

C9_Witness ==
    /\ call.op = "into_tags"
    /\ Len(Fields) = 2
    /\ DeclaredOptional(Fields[1])
    /\ ~call.arg[1].value.some
    /\ ~DeclaredOptional(Fields[2])
    /\ DeclaredKey(Fields[2]) = "id"
    /\ AsSlice(call.ret) = <<RawTagNew(TagKeyNew("id"), RawNew("2"))>>

\* the conversion of a type gives back every value it serializes
RoundTrips(ty) == \A v \in Values(TypeName(ty)) : FromRawTag(ty, IntoRawTag(ty, v)) = Ok(v)

NoDuplicateKeys(list) ==
    \A a, b \in 1..Len(list.entries) : a # b => list.entries[a].key # list.entries[b].key

\* C10: for every accepted struct and every value x, from_tags(into_tags(x)) is
\* x whenever every field type's conversion round-trips and the list of
\* into_tags(x) holds no key twice.
C10_RoundTrip ==
    (/\ call.op = "from_tags"
     /\ call.source.some
     /\ \A i \in 1..Len(Fields) : RoundTrips(ValueType(Fields[i]))
     /\ NoDuplicateKeys(call.arg)) =>
        call.ret = Ok(call.source.val)

\* the round trip where the keys of the fields are pairwise distinct
RoundTripOfDistinctKeys ==
    (/\ call.op = "from_tags"
     /\ call.source.some
     /\ \A i \in 1..Len(Fields) : RoundTrips(ValueType(Fields[i]))
     /\ \A a, b \in 1..Len(Fields) : a # b => DeclaredKey(Fields[a]) # DeclaredKey(Fields[b])) =>
        call.ret = Ok(call.source.val)

\* C11 as stated: from_tags of a tag list and of any reordering of its entries
\* give the same result, the same struct or the same error, for every tag list.
C11_ReorderKeepsResult ==
    (call.op = "from_tags" /\ call.before.some) => call.ret = call.before.val.ret

\* C11: from_tags of a tag list that holds no key twice and of any reordering
\* of its entries give the same result, the same struct or the same error.
C11_ReorderOfDistinctKeysKeepsResult ==
    (call.op = "from_tags" /\ call.before.some /\ NoDuplicateKeys(call.before.val.arg)) =>
        call.ret = call.before.val.ret

C11_Witness ==
    /\ call.op = "from_tags"
    /\ call.before.some
    /\ Len(Fields) = 2
    /\ AsSlice(call.before.val.arg) = <<RawTagNew(TagKeyNew("id"), RawNew("1")),
                                        RawTagNew(TagKeyNew("note"), RawNew("2"))>>
    /\ AsSlice(call.arg) = <<RawTagNew(TagKeyNew("note"), RawNew("2")),
                             RawTagNew(TagKeyNew("id"), RawNew("1"))>>
    /\ call.ret = Ok(<<[ident |-> Id("id"), value |-> V(1)],
                       [ident |-> Id("note"), value |-> V(2)]>>)

----------------------------------------------------------------------------
(* The attributes of variants and fields.  In these runs an enum is decorated
   with #[tag(translate = transparent)] and a struct with #[tags]. *)

CfgAttr(name) == Outer(MetaList(<<Id("cfg")>>, EPath(<<Id(name)>>)))
SerdeAttr == Outer(MetaList(<<Id("serde")>>, EPath(<<Id("skip")>>)))

\* the attribute lists of a field
FieldAttrLists ==
    {<<>>,
     <<CfgAttr("unix")>>,
     <<DocAttr>>,
     <<CfgAttr("unix"), DocAttr, CfgAttr("test")>>,
     <<SerdeAttr, TagAttr("key", ELitStr("k")), CfgAttr("unix")>>,
     <<TagAttr("key", ELitStr("k")), DocAttr, TagAttr("rename", ELitInt(1))>>,
     <<Outer(MetaPath(<<Id("tag")>>)), TagAttr("key", ELitStr("k"))>>,
     <<DocAttr, TagAttr("rename", ELitStr("k"))>>}

AttrTypes == {Plain("Num"), OptionOf(Angle(<<GType(Plain("Num"))>>))}

\* the attribute lists and shapes of a variant
AttrVariantShapes ==
    VariantShapes \cup
        {[fields |-> FUnit, discriminant |-> FALSE, attrs |-> as] :
            as \in {<<TagAttr("rename", ELitStr("bee")), DocAttr, TagAttr("key", ELitInt(1))>>,
                    <<Inner(MetaList(<<Id("tag")>>, Unparsable)), CfgAttr("unix"),
                      TagAttr("rename", ELitStr("bee"))>>,
                    <<CfgAttr("unix"), DocAttr>>}}

InitAttrs ==
    /\ \/ /\ attr = ConfigOf("transparent")
          /\ \E n \in 0..MaxVariants : \E shapes \in [1..n -> AttrVariantShapes] :
                item = EnumOf(shapes)
       \/ /\ attr = EmptyAttr
          /\ \E n \in 0..MaxFields :
                \E tys \in [1..n -> AttrTypes] : \E ats \in [1..n -> FieldAttrLists] :
                   item = StructOf(tys, ats)
    /\ out = Pending
    /\ val = None
    /\ tags = TagListFromVec(<<>>)
    /\ call = NoCall

\* the compiler expands #[tag(translate = transparent)] on the enum
TagExpandEnum == item.kind = "Enum" /\ TagExpand

\* the compiler expands #[tags] on the struct
TagsExpandStruct == item.kind = "Struct" /\ TagsExpand

NextAttrs == TagExpandEnum \/ TagsExpandStruct

SpecAttrs == InitAttrs /\ [][NextAttrs]_vars

----------------------------------------------------------------------------
(* Properties of the attributes *)

\* a conditional-compilation attribute
IsCfg(a) == a.meta.kind = "List" /\ a.meta.path = <<Id("cfg")>>

\* an attribute that is not the macro's own
NonMacro(a) == a.meta.path # <<Id("tag")>>

\* C12: every field's non-macro attributes are kept, in order, on the emitted
\* struct field, and the field's element in the from_values parameter and
\* initializer, the from_tags initializer and the into_tags statement carries
\* exactly the field's cfg attributes and no other attribute of the field.
C12_CfgAttributesOnEveryOperation ==
    (out.st = "ok" /\ item.kind = "Struct") =>
        \A i \in 1..Len(Fields) :
            /\ SelectSeq(out.elem.fields.list[i].attrs, NonMacro)
                  = SelectSeq(Fields[i].attrs, NonMacro)
            /\ out.impls.params[i].attrs = SelectSeq(Fields[i].attrs, IsCfg)
            /\ out.impls.from_fields[i].attrs = SelectSeq(Fields[i].attrs, IsCfg)
            /\ out.impls.from_tags_fields[i].attrs = SelectSeq(Fields[i].attrs, IsCfg)
            /\ out.impls.fields_to_tags[i].attrs = SelectSeq(Fields[i].attrs, IsCfg)

\* what holds of the attributes: from_values and from_tags carry the cfg
\* attributes, into_tags every attribute left on the field
AttributesAsEmitted ==
    (out.st = "ok" /\ item.kind = "Struct") =>
        \A i \in 1..Len(Fields) :
            /\ SelectSeq(out.elem.fields.list[i].attrs, NonMacro)
                  = SelectSeq(Fields[i].attrs, NonMacro)
            /\ out.impls.params[i].attrs = SelectSeq(Fields[i].attrs, IsCfg)
            /\ out.impls.from_fields[i].attrs = SelectSeq(Fields[i].attrs, IsCfg)
            /\ out.impls.from_tags_fields[i].attrs = SelectSeq(Fields[i].attrs, IsCfg)
            /\ out.impls.fields_to_tags[i].attrs = out.elem.fields.list[i].attrs

\* the macro's nested configuration attribute: outer, list-style, of path tag
IsOuterTagList(a) ==
    a.style = "Outer" /\ a.meta.kind = "List" /\ a.meta.path = <<Id("tag")>>

\* the place of the first tag(...) attribute in as, 0 without one
FirstTagList(as) ==
    LET hits == {k \in 1..Len(as) : IsOuterTagList(as[k])}
    IN  IF hits = {} THEN 0 ELSE CHOOSE k \in hits : \A m \in hits : k <= m

\* as without its first tag(...) attribute
WithoutFirstTagList(as) ==
    IF FirstTagList(as) = 0 THEN as
    ELSE SubSeq(as, 1, FirstTagList(as) - 1) \o SubSeq(as, FirstTagList(as) + 1, Len(as))

\* the name as and the identifier declare: the literal of the first tag(...)
\* attribute, else the identifier text
NameOf(as, ident) ==
    IF FirstTagList(as) = 0 THEN IdentToString(ident)
    ELSE as[FirstTagList(as)].meta.tokens.right.lit.value

\* C13: of a variant under `tag` and of a field under `tags`, exactly the first
\* outer list-style tag(...) attribute is removed and its payload is the
\* override; every other attribute, a later tag(...) attribute included, stays
\* in the emitted item in its order and is not inspected; without a tag(...)
\* attribute the list is unchanged and the default name is used.
C13_FirstTagAttributeConsumed ==
    /\ (out.st = "ok" /\ item.kind = "Enum") =>
          \A i \in 1..Len(item.variants) :
              LET v == item.variants[i]
              IN  /\ out.elem.variants[i].attrs = WithoutFirstTagList(v.attrs)
                  /\ EnumIntoRaw(out.impls, v.ident) = RawNew(NameOf(v.attrs, v.ident))
    /\ (out.st = "ok" /\ item.kind = "Struct") =>
          \A i \in 1..Len(Fields) :
              LET f == Fields[i]
              IN  /\ out.elem.fields.list[i].attrs = WithoutFirstTagList(f.attrs)
                  /\ out.impls.from_tags_fields[i].tag_name = NameOf(f.attrs, f.ident.val)
                  /\ out.impls.fields_to_tags[i].tag_name = NameOf(f.attrs, f.ident.val)

C13_Witness ==
    /\ out.st = "ok"
    /\ item.kind = "Struct"
    /\ Len(Fields) = 2
    /\ Fields[1].attrs = <<TagAttr("key", ELitStr("k")), DocAttr, TagAttr("rename", ELitInt(1))>>
    /\ out.elem.fields.list[1].attrs = <<DocAttr, TagAttr("rename", ELitInt(1))>>
    /\ out.impls.from_tags_fields[1].tag_name = "k"
    /\ Fields[2].attrs = <<CfgAttr("unix")>>
    /\ out.elem.fields.list[2].attrs = <<CfgAttr("unix")>>
    /\ out.impls.from_tags_fields[2].tag_name = "note"

=============================================================================
